---- MODULE Spec2Model ----
(***************************************************************************)
(* Model of the skill validator, skill-builder/scripts/validate_skill.py.  *)
(*                                                                         *)
(* A Python str is a sequence of one-character strings.  A run of          *)
(* validate_skill is a sequential process whose position is pc; the        *)
(* package directory it inspects is the input pkg, drawn in Init.          *)
(***************************************************************************)
EXTENDS Integers, Sequences, FiniteSets, TLC

VARIABLES pkg, pc, results, content, meta, body, report, exitCode,
          run, prevReport, prevExit

\* the PreToolUse hook hooks/cost_guard.py: what it reads on stdin, its
\* position, the issues of check_command, its stderr and its exit status
VARIABLES stdin, hookPc, issues, stderr, hookExit

validatorVars == <<pkg, pc, results, content, meta, body, report, exitCode,
                   run, prevReport, prevExit>>
hookVars == <<stdin, hookPc, issues, stderr, hookExit>>
vars == <<validatorVars, hookVars>>

----------------------------------------------------------------------------
(* Program constants *)

MAX_NAME_LEN == 64
MAX_DESC_LEN == 1024
MAX_BODY_LINES == 500
MIN_DESC_LEN == 30
SHORT_BODY_LINES == 5
MAX_REF_DEPTH == 3

FORBIDDEN_FILES ==
    {"README.md", "INSTALLATION_GUIDE.md", "QUICK_REFERENCE.md",
     "CHANGELOG.md", "SETUP.md", "CONTRIBUTING.md"}

W_anthropic == <<"a", "n", "t", "h", "r", "o", "p", "i", "c">>
W_claude == <<"c", "l", "a", "u", "d", "e">>
FORBIDDEN_NAME_WORDS == {W_anthropic, W_claude}

K_name == <<"n", "a", "m", "e">>
K_description == <<"d", "e", "s", "c", "r", "i", "p", "t", "i", "o", "n">>
K_license == <<"l", "i", "c", "e", "n", "s", "e">>
K_model == <<"m", "o", "d", "e", "l">>
K_context == <<"c", "o", "n", "t", "e", "x", "t">>
K_agent == <<"a", "g", "e", "n", "t">>
K_hooks == <<"h", "o", "o", "k", "s">>
K_metadata == <<"m", "e", "t", "a", "d", "a", "t", "a">>
K_compatibility ==
    <<"c", "o", "m", "p", "a", "t", "i", "b", "i", "l", "i", "t", "y">>
K_argument_hint ==
    <<"a", "r", "g", "u", "m", "e", "n", "t", "-", "h", "i", "n", "t">>
K_allowed_tools ==
    <<"a", "l", "l", "o", "w", "e", "d", "-", "t", "o", "o", "l", "s">>
K_user_invocable ==
    <<"u", "s", "e", "r", "-", "i", "n", "v", "o", "c", "a", "b", "l", "e">>
K_disable_model_invocation ==
    <<"d", "i", "s", "a", "b", "l", "e", "-", "m", "o", "d", "e", "l", "-",
      "i", "n", "v", "o", "c", "a", "t", "i", "o", "n">>

allowed_fields ==
    {K_name, K_description, K_argument_hint, K_disable_model_invocation,
     K_user_invocable, K_allowed_tools, K_model, K_context, K_agent,
     K_hooks, K_license, K_compatibility, K_metadata}

P_venv == <<".", "v", "e", "n", "v">>
P_pycache == <<"_", "_", "p", "y", "c", "a", "c", "h", "e", "_", "_">>
GITIGNORE_PATTERNS == <<P_venv, P_pycache>>

DELIM == <<"-", "-", "-">>

----------------------------------------------------------------------------
(* Python str operations *)

LOWER == <<"a", "b", "c", "d", "e", "f", "g", "h", "i", "j", "k", "l", "m",
           "n", "o", "p", "q", "r", "s", "t", "u", "v", "w", "x", "y", "z">>
UPPER == <<"A", "B", "C", "D", "E", "F", "G", "H", "I", "J", "K", "L", "M",
           "N", "O", "P", "Q", "R", "S", "T", "U", "V", "W", "X", "Y", "Z">>
DIGITS == {"0", "1", "2", "3", "4", "5", "6", "7", "8", "9"}
LowerSet == {LOWER[k] : k \in 1..26}
WHITESPACE == {" ", "\n", "\t", "\r"}
QUOTES == {"'", "\""}

Min(S) == CHOOSE a \in S : \A b \in S : a <= b
Dist(a, b) == IF a >= b THEN a - b ELSE b - a

\* s[a:b] with 0-based, end-exclusive Python indices, 0 <= a
Slice(s, a, b) == SubSeq(s, a + 1, b)

StartsWith(s, p) == Len(s) >= Len(p) /\ SubSeq(s, 1, Len(p)) = p

\* s.find(p, start): 0-based index of the first occurrence at or after start
Find(s, p, start) ==
    LET hits == {i \in start..(Len(s) - Len(p)) : SubSeq(s, i + 1, i + Len(p)) = p}
    IN IF hits = {} THEN -1 ELSE Min(hits)

\* p in s
Contains(s, p) == Find(s, p, 0) # -1

\* s.strip(chars)
StripChars(s, chars) ==
    IF \A i \in 1..Len(s) : s[i] \in chars THEN <<>>
    ELSE LET first == CHOOSE i \in 1..Len(s) :
                          s[i] \notin chars /\ \A j \in 1..(i - 1) : s[j] \in chars
             last == CHOOSE i \in 1..Len(s) :
                          s[i] \notin chars /\ \A j \in (i + 1)..Len(s) : s[j] \in chars
         IN SubSeq(s, first, last)

\* s.strip()
Strip(s) == StripChars(s, WHITESPACE)

LowerChar(c) ==
    IF \E k \in 1..26 : UPPER[k] = c
    THEN LOWER[CHOOSE k \in 1..26 : UPPER[k] = c]
    ELSE c

\* s.lower()
Lower(s) == [i \in 1..Len(s) |-> LowerChar(s[i])]

\* s.split(sep) for a one-character sep, on the range lo..hi of s
RECURSIVE SplitRange(_, _, _, _)
SplitRange(s, sep, lo, hi) ==
    LET hits == {i \in lo..hi : s[i] = sep}
    IN IF hits = {} THEN <<SubSeq(s, lo, hi)>>
       ELSE LET mid == (lo + hi) \div 2
                best == Min({Dist(i, mid) : i \in hits})
                m == IF (mid - best) \in hits THEN mid - best ELSE mid + best
            IN SplitRange(s, sep, lo, m - 1) \o SplitRange(s, sep, m + 1, hi)

Split(s, sep) == SplitRange(s, sep, 1, Len(s))

\* s.partition(sep) for a one-character sep that occurs in s: <<head, tail>>
Partition(s, sep) ==
    LET i == Min({j \in 1..Len(s) : s[j] = sep})
    IN <<SubSeq(s, 1, i - 1), SubSeq(s, i + 1, Len(s))>>

----------------------------------------------------------------------------
(* dict, in insertion order: a sequence of <<key, value>> with distinct keys *)

DictHas(items, k) == \E i \in 1..Len(items) : items[i][1] = k

DictSet(items, k, v) ==
    IF DictHas(items, k)
    THEN [i \in 1..Len(items) |->
            IF items[i][1] = k THEN <<k, v>> ELSE items[i]]
    ELSE Append(items, <<k, v>>)

\* items.get(k, default)
DictGet(items, k, default) ==
    IF DictHas(items, k)
    THEN items[CHOOSE i \in 1..Len(items) : items[i][1] = k][2]
    ELSE default

----------------------------------------------------------------------------
(* Result(level, check, message); a message is its format and arguments *)

Msg(kind, n, s) == [kind |-> kind, n |-> n, s |-> s]
Result(level, check, message) ==
    [level |-> level, check |-> check, message |-> message]

\* the new diagnostic put in front of the sequence
AppendIf_Prepend(cond, rs, r) == IF cond THEN <<r>> \o rs ELSE rs

AppendIf(cond, rs, r) == IF cond THEN Append(rs, r) ELSE rs

----------------------------------------------------------------------------
(* parse_frontmatter *)

NoMeta == [isNone |-> TRUE, items |-> <<>>]

\* the loop body of the line parser: one line of yaml_block folded into meta
ParseLine(items, rawLine) ==
    LET line == Strip(rawLine)
    IN IF line = <<>> \/ StartsWith(line, <<"#">>) THEN items
       ELSE IF Contains(line, <<":">>)
            THEN LET kv == Partition(line, ":")
                     key == Strip(kv[1])
                     value == StripChars(Strip(kv[2]), QUOTES)
                 IN DictSet(items, key, value)
            ELSE items

RECURSIVE ParseLines(_, _, _)
ParseLines(lines, k, items) ==
    IF k > Len(lines) THEN items
    ELSE ParseLines(lines, k + 1, ParseLine(items, lines[k]))

\* returns [meta, body]
parse_frontmatter(text) ==
    IF ~StartsWith(text, DELIM) THEN [meta |-> NoMeta, body |-> text]
    ELSE LET end == Find(text, DELIM, 3)
         IN IF end = -1 THEN [meta |-> NoMeta, body |-> text]
            ELSE LET yaml_block == Strip(Slice(text, 3, end))
                     rest == Strip(Slice(text, end + 3, Len(text)))
                 IN [meta |-> [isNone |-> FALSE,
                               items |-> ParseLines(Split(yaml_block, "\n"), 1, <<>>)],
                     body |-> rest]

----------------------------------------------------------------------------
(* validate_frontmatter *)

NameChars == LowerSet \cup DIGITS

\* the pattern without its alternative for a single character
NAME_PATTERN_NoSingle(name) ==
    /\ Len(name) >= 2
    /\ name[1] \in NameChars
    /\ name[Len(name)] \in NameChars
    /\ \A i \in 1..Len(name) : name[i] \in NameChars \cup {"-"}

\* NAME_PATTERN.match(name)
NAME_PATTERN(name) ==
    /\ Len(name) >= 1
    /\ name[1] \in NameChars
    /\ name[Len(name)] \in NameChars
    /\ \A i \in 1..Len(name) : name[i] \in NameChars \cup {"-"}

\* for word in FORBIDDEN_NAME_WORDS, in the iteration order of the set
RECURSIVE ForbiddenWordLoop(_, _, _, _)
ForbiddenWordLoop(order, k, name, rs) ==
    IF k > Len(order) THEN rs
    ELSE ForbiddenWordLoop(order, k + 1, name,
            AppendIf(Contains(Lower(name), order[k]), rs,
                     Result("ERROR", "name", Msg("Name must not contain", 0, order[k]))))

\* a name of exactly MAX_NAME_LEN characters counted as too long
TooLongName_Inclusive(name) == Len(name) >= MAX_NAME_LEN

TooLongName(name) == Len(name) > MAX_NAME_LEN

\* a name of no characters checked like any other name
NameRules_KeyOnly(items, rs, order) ==
    LET name == DictGet(items, K_name, <<>>)
    IN IF ~DictHas(items, K_name)
       THEN Append(rs, Result("ERROR", "frontmatter", Msg("Missing 'name' field", 0, <<>>)))
       ELSE LET r1 == AppendIf(TooLongName(name), rs,
                         Result("ERROR", "name", Msg("Name too long", Len(name), <<>>)))
                r2 == AppendIf(~NAME_PATTERN(name), r1,
                         Result("ERROR", "name", Msg("Name must be lowercase letters, numbers, hyphens only", 0, name)))
                r3 == ForbiddenWordLoop(order, 1, name, r2)
            IN AppendIf(Contains(name, <<"<">>) \/ Contains(name, <<">">>), r3,
                        Result("ERROR", "name", Msg("Name must not contain XML tags", 0, <<>>)))

NameRules(items, rs, order) ==
    LET name == DictGet(items, K_name, <<>>)
    IN IF name = <<>>
       THEN Append(rs, Result("ERROR", "frontmatter", Msg("Missing 'name' field", 0, <<>>)))
       ELSE LET r1 == AppendIf(TooLongName(name), rs,
                         Result("ERROR", "name", Msg("Name too long", Len(name), <<>>)))
                r2 == AppendIf(~NAME_PATTERN(name), r1,
                         Result("ERROR", "name", Msg("Name must be lowercase letters, numbers, hyphens only", 0, name)))
                r3 == ForbiddenWordLoop(order, 1, name, r2)
            IN AppendIf(Contains(name, <<"<">>) \/ Contains(name, <<">">>), r3,
                        Result("ERROR", "name", Msg("Name must not contain XML tags", 0, <<>>)))

S_i_sp == <<"i", " ">>
S_i_can == <<"i", " ", "c", "a", "n">>
S_i_will == <<"i", " ", "w", "i", "l", "l">>
S_you_can == <<"y", "o", "u", " ", "c", "a", "n">>
S_you_should == <<"y", "o", "u", " ", "s", "h", "o", "u", "l", "d">>
S_use_when == <<"u", "s", "e", " ", "w", "h", "e", "n">>
S_use_this == <<"u", "s", "e", " ", "t", "h", "i", "s">>

\* a description of exactly MIN_DESC_LEN characters counted as too short
TooShortDesc_Inclusive(desc) == Len(desc) <= MIN_DESC_LEN

TooShortDesc(desc) == Len(desc) < MIN_DESC_LEN

DescRules(items, rs) ==
    LET desc == DictGet(items, K_description, <<>>)
        desc_lower == Lower(desc)
    IN IF desc = <<>>
       THEN Append(rs, Result("ERROR", "frontmatter", Msg("Missing 'description' field", 0, <<>>)))
       ELSE LET r1 == AppendIf(Len(desc) > MAX_DESC_LEN, rs,
                         Result("ERROR", "description", Msg("Description too long", Len(desc), <<>>)))
                r2 == AppendIf(TooShortDesc(desc), r1,
                         Result("WARN", "description", Msg("Description very short", Len(desc), <<>>)))
                r3 == AppendIf(Contains(desc, <<"<">>) /\ Contains(desc, <<">">>), r2,
                         Result("ERROR", "description", Msg("Description must not contain XML tags", 0, <<>>)))
                r4 == AppendIf(StartsWith(desc, <<">", "-">>) \/ StartsWith(desc, <<"|">>), r3,
                         Result("ERROR", "description", Msg("YAML multiline indicators break the skill indexer", 0, <<>>)))
                r5 == AppendIf(\/ StartsWith(desc_lower, S_i_sp)
                               \/ Contains(desc_lower, S_i_can)
                               \/ Contains(desc_lower, S_i_will), r4,
                         Result("WARN", "description", Msg("Description should be third person (not 'I can/will')", 0, <<>>)))
                r6 == AppendIf(Contains(desc_lower, S_you_can) \/ Contains(desc_lower, S_you_should), r5,
                         Result("WARN", "description", Msg("Description should be third person (not 'you can/should')", 0, <<>>)))
            IN AppendIf(~Contains(desc_lower, S_use_when) /\ ~Contains(desc_lower, S_use_this), r6,
                        Result("WARN", "description", Msg("Description should include 'Use when...' language", 0, <<>>)))

\* only the two required keys taken for allowed
UnknownField_Required(key) == key \notin {K_name, K_description}

\* key not in allowed_fields
UnknownField(key) == key \notin allowed_fields

\* for key in meta: if key not in allowed_fields
RECURSIVE ExtraFieldLoop(_, _, _)
ExtraFieldLoop(items, k, rs) ==
    IF k > Len(items) THEN rs
    ELSE ExtraFieldLoop(items, k + 1,
            AppendIf(UnknownField(items[k][1]), rs,
                     Result("WARN", "frontmatter", Msg("Unknown frontmatter field", 0, items[k][1]))))

NoFrontmatter ==
    Result("ERROR", "frontmatter", Msg("No YAML frontmatter found (must start with ---)", 0, <<>>))

\* the return after the no-frontmatter ERROR left out
validate_frontmatter_NoReturn(m, rs, order) ==
    LET r0 == IF m.isNone THEN Append(rs, NoFrontmatter) ELSE rs
    IN ExtraFieldLoop(m.items, 1, DescRules(m.items, NameRules(m.items, r0, order)))

\* order is the iteration order of the set FORBIDDEN_NAME_WORDS in this process
validate_frontmatter(m, rs, order) ==
    IF m.isNone
    THEN Append(rs, NoFrontmatter)
    ELSE ExtraFieldLoop(m.items, 1, DescRules(m.items, NameRules(m.items, rs, order)))

----------------------------------------------------------------------------
(* validate_body *)

\* the warning from 80% of the maximum on, not above it
BodyLengthCheck_From(line_count, rs) ==
    IF line_count > MAX_BODY_LINES
    THEN Append(rs, Result("ERROR", "body", Msg("Body too long", line_count, <<>>)))
    ELSE IF line_count * 10 >= MAX_BODY_LINES * 8
         THEN Append(rs, Result("WARN", "body", Msg("Body approaching limit", line_count, <<>>)))
         ELSE rs

\* if ... elif on the line count
BodyLengthCheck(line_count, rs) ==
    IF line_count > MAX_BODY_LINES
    THEN Append(rs, Result("ERROR", "body", Msg("Body too long", line_count, <<>>)))
    ELSE IF line_count * 10 > MAX_BODY_LINES * 8
         THEN Append(rs, Result("WARN", "body", Msg("Body approaching limit", line_count, <<>>)))
         ELSE rs

ShortBodyCheck(line_count, rs) ==
    AppendIf(line_count < SHORT_BODY_LINES, rs,
             Result("WARN", "body", Msg("Body is very short", 0, <<>>)))

HeadingCheck(lines, rs) ==
    LET has_h1 == \E k \in 1..Len(lines) : StartsWith(lines[k], <<"#", " ">>)
    IN AppendIf(~has_h1, rs, Result("WARN", "body", Msg("No H1 heading found", 0, <<>>)))

\* the approaching-limit check as an if of its own instead of an elif
validate_body_NoElif(text, rs) ==
    LET lines == Split(text, "\n")
        line_count == Len(lines)
        r0 == AppendIf(line_count > MAX_BODY_LINES, rs,
                 Result("ERROR", "body", Msg("Body too long", line_count, <<>>)))
        r1 == AppendIf(line_count * 10 > MAX_BODY_LINES * 8, r0,
                 Result("WARN", "body", Msg("Body approaching limit", line_count, <<>>)))
    IN HeadingCheck(lines, ShortBodyCheck(line_count, r1))

\* the heading check skipped once the body is too long
validate_body_Suppressed(text, rs) ==
    LET lines == Split(text, "\n")
        line_count == Len(lines)
        r2 == ShortBodyCheck(line_count, BodyLengthCheck(line_count, rs))
    IN IF line_count > MAX_BODY_LINES THEN r2 ELSE HeadingCheck(lines, r2)

validate_body(text, rs) ==
    LET lines == Split(text, "\n")
        line_count == Len(lines)
    IN HeadingCheck(lines, ShortBodyCheck(line_count, BodyLengthCheck(line_count, rs)))

----------------------------------------------------------------------------
(* print_results: the lines written to stdout, and the returned exit code *)

NoMsg == Msg("", 0, <<>>)
Line(tag, check, message, n, m) ==
    [tag |-> tag, check |-> check, message |-> message, n |-> n, m |-> m]

IsError(r) == r.level = "ERROR"
IsWarn(r) == r.level = "WARN"

\* the warnings listed last-found first
WarningsOf_Reversed(rs) ==
    LET ws == SelectSeq(rs, IsWarn)
    IN [i \in 1..Len(ws) |-> ws[Len(ws) + 1 - i]]

ErrorsOf(rs) == SelectSeq(rs, IsError)
WarningsOf(rs) == SelectSeq(rs, IsWarn)

\* the test for warnings left out of the all-passed condition
NothingFound_NoErrors(errors, warnings) == errors = <<>>

\* not errors and not warnings
NothingFound(errors, warnings) == errors = <<>> /\ warnings = <<>>

print_results(skill_name, rs) ==
    LET errors == ErrorsOf(rs)
        warnings == WarningsOf(rs)
        banner == <<Line("Skill Validation", skill_name, NoMsg, 0, 0)>>
        errSection ==
            IF errors # <<>>
            THEN <<Line("ERRORS", "", NoMsg, Len(errors), 0)>> \o
                 [i \in 1..Len(errors) |->
                     Line("[x]", errors[i].check, errors[i].message, 0, 0)]
            ELSE <<>>
        warnSection ==
            IF warnings # <<>>
            THEN <<Line("WARNINGS", "", NoMsg, Len(warnings), 0)>> \o
                 [i \in 1..Len(warnings) |->
                     Line("[!]", warnings[i].check, warnings[i].message, 0, 0)]
            ELSE <<>>
        passed ==
            IF NothingFound(errors, warnings)
            THEN <<Line("ALL CHECKS PASSED", "", NoMsg, 0, 0)>>
            ELSE <<>>
        verdict ==
            IF errors # <<>>
            THEN <<Line("RESULT: FAIL", "", NoMsg, Len(errors), Len(warnings))>>
            ELSE <<Line("RESULT: PASS", "", NoMsg, Len(warnings), 0)>>
    IN [out |-> banner \o errSection \o warnSection \o passed \o verdict,
        code |-> IF errors # <<>> THEN 1 ELSE 0]

----------------------------------------------------------------------------
(* The package directory: what the file system holds at skill_path *)

Repeat(c, n) == [i \in 1..n |-> c]
PadTo(core, len, fill) ==
    IF Len(core) >= len THEN core ELSE core \o Repeat(fill, len - Len(core))

\* a body of n lines; the first is the heading "# T" when h1; the empty
\* text for n = 0
BodyText(n, h1) ==
    LET first == IF h1 THEN <<"#", " ", "T">> ELSE <<"x">>
        total == Len(first) + 2 * (n - 1)
    IN IF n = 0 THEN <<>>
       ELSE [i \in 1..total |->
               IF i <= Len(first) THEN first[i]
               ELSE IF (i - Len(first)) % 2 = 1 THEN "\n" ELSE "x"]

\* a header line: <<key, raw>> is written "key: raw", <<line>> as it is
HeaderLine(field) ==
    IF Len(field) = 1 THEN field[1]
    ELSE field[1] \o <<":", " ">> \o field[2]

RECURSIVE HeaderText(_, _)
HeaderText(fields, k) ==
    IF k > Len(fields) THEN <<>>
    ELSE HeaderLine(fields[k]) \o <<"\n">> \o HeaderText(fields, k + 1)

\* the text of SKILL.md written from the document parameters
SkillText(doc) ==
    LET text == BodyText(doc.lines, doc.h1) \o
                (IF doc.trail THEN <<"\n">> ELSE <<>>)
        first == CASE doc.hdr = "four" -> <<"-">> \o DELIM
                   [] doc.hdr = "junk" -> DELIM \o <<" ", "y", "a", "m", "l">>
                   [] doc.hdr = "late" -> <<"\n">> \o DELIM
                   [] OTHER -> DELIM
        open == first \o <<"\n">> \o HeaderText(doc.fields, 1)
    IN CASE doc.hdr = "none" -> text
         [] doc.hdr = "open" -> open \o text
         [] OTHER -> open \o DELIM \o <<"\n">> \o text

Doc(hdr, fields, lines, h1, trail) ==
    [hdr |-> hdr, fields |-> fields, lines |-> lines, h1 |-> h1, trail |-> trail]

File(kind, text) == [kind |-> kind, text |-> text]
AbsentFile == File("absent", <<>>)
UnreadableFile == File("unreadable", <<>>)

Script(name, kind) == [name |-> name, kind |-> kind]
RefEntry(rel, is_file) == [rel |-> rel, is_file |-> is_file]

\* references/ holding a chain of nested directories d/d/... with one file
\* at each depth of fileDepths (depth = number of path components relative
\* to the package root), listed top-down
RefDirRel(d) == <<"references">> \o [i \in 1..(d - 1) |-> "d"]

RECURSIVE RefWalk(_, _, _)
RefWalk(fileDepths, maxDepth, d) ==
    IF d > maxDepth THEN <<>>
    ELSE (IF d \in fileDepths
          THEN <<RefEntry(RefDirRel(d - 1) \o <<"f.md">>, TRUE)>> ELSE <<>>) \o
         (IF d < maxDepth THEN <<RefEntry(RefDirRel(d), FALSE)>> ELSE <<>>) \o
         RefWalk(fileDepths, maxDepth, d + 1)

DIR_NAME == "my-skill"

Package(path, skill_md, doc, listing, gitignore, scripts, refs) ==
    [path |-> path, skill_md |-> skill_md, doc |-> doc, listing |-> listing,
     gitignore |-> gitignore, scripts |-> scripts, refs |-> refs]

----------------------------------------------------------------------------
(* validate_structure *)

NoContent == [isNone |-> TRUE, text |-> <<>>]
Content(text) == [isNone |-> FALSE, text |-> text]

ForbiddenFileLoop(listing, rs) ==
    LET hits == SelectSeq(listing, LAMBDA item : item \in FORBIDDEN_FILES)
    IN rs \o [i \in 1..Len(hits) |->
                Result("ERROR", "structure", Msg("Forbidden file", 0, <<hits[i]>>))]

\* an absent file reported and then searched like an empty one
GitignoreCheck_AlsoPatterns(gitignore, rs) ==
    LET text == IF gitignore.kind = "absent" THEN <<>> ELSE gitignore.text
        missing == SelectSeq(GITIGNORE_PATTERNS, LAMBDA pattern : ~Contains(text, pattern))
    IN AppendIf(gitignore.kind = "absent", rs,
                Result("WARN", "structure", Msg("No .gitignore found", 0, <<>>)))
       \o [i \in 1..Len(missing) |->
             Result("WARN", "structure", Msg(".gitignore missing exclusion", 0, missing[i]))]

GitignoreCheck(gitignore, rs) ==
    IF gitignore.kind = "absent"
    THEN Append(rs, Result("WARN", "structure", Msg("No .gitignore found", 0, <<>>)))
    ELSE LET missing == SelectSeq(GITIGNORE_PATTERNS,
                                  LAMBDA pattern : ~Contains(gitignore.text, pattern))
         IN rs \o [i \in 1..Len(missing) |->
                     Result("WARN", "structure", Msg(".gitignore missing exclusion", 0, missing[i]))]

\* every script that cannot be read or parsed reported
ScriptsCheck_AnyFailure(scripts, rs) ==
    IF ~scripts.exists THEN rs
    ELSE LET bad == SelectSeq(scripts.files, LAMBDA py_file : py_file.kind # "ok")
         IN rs \o [i \in 1..Len(bad) |->
                     Result("ERROR", "scripts", Msg("Syntax error in", 0, <<bad[i].name>>))]

ScriptsCheck(scripts, rs) ==
    IF ~scripts.exists THEN rs
    ELSE LET bad == SelectSeq(scripts.files, LAMBDA py_file : py_file.kind = "syntax")
         IN rs \o [i \in 1..Len(bad) |->
                     Result("ERROR", "scripts", Msg("Syntax error in", 0, <<bad[i].name>>))]

\* every entry of three or more components reported, directories included
ReferencesCheck_Inclusive(refs, rs) ==
    IF ~refs.exists THEN rs
    ELSE LET deep == SelectSeq(refs.entries,
                               LAMBDA ref_file : Len(ref_file.rel) >= MAX_REF_DEPTH)
         IN rs \o [i \in 1..Len(deep) |->
                     Result("WARN", "structure", Msg("Deep nesting", 0, deep[i].rel))]

ReferencesCheck(refs, rs) ==
    IF ~refs.exists THEN rs
    ELSE LET deep == SelectSeq(refs.entries,
                               LAMBDA ref_file : ref_file.is_file /\ Len(ref_file.rel) > MAX_REF_DEPTH)
         IN rs \o [i \in 1..Len(deep) |->
                     Result("WARN", "structure", Msg("Deep nesting", 0, deep[i].rel))]

\* the forbidden-file scan placed before the test for SKILL.md
validate_structure_ScanFirst(p, rs) ==
    LET r1 == ForbiddenFileLoop(p.listing, rs)
    IN IF p.skill_md = "absent"
       THEN [results |-> Append(r1, Result("ERROR", "structure", Msg("SKILL.md not found", 0, <<>>))),
             content |-> NoContent, raised |-> FALSE]
       ELSE IF p.gitignore.kind = "unreadable"
            THEN [results |-> r1, content |-> NoContent, raised |-> TRUE]
            ELSE LET r4 == ReferencesCheck(p.refs,
                              ScriptsCheck(p.scripts, GitignoreCheck(p.gitignore, r1)))
                 IN IF p.skill_md = "unreadable"
                    THEN [results |-> r4, content |-> NoContent, raised |-> TRUE]
                    ELSE [results |-> r4, content |-> Content(SkillText(p.doc)),
                          raised |-> FALSE]

\* returns [results, content, raised]; raised: an exception left the function
validate_structure(p, rs) ==
    IF p.skill_md = "absent"
    THEN [results |-> Append(rs, Result("ERROR", "structure", Msg("SKILL.md not found", 0, <<>>))),
          content |-> NoContent, raised |-> FALSE]
    ELSE LET r1 == ForbiddenFileLoop(p.listing, rs)
         IN IF p.gitignore.kind = "unreadable"
            THEN [results |-> r1, content |-> NoContent, raised |-> TRUE]
            ELSE LET r2 == GitignoreCheck(p.gitignore, r1)
                     r3 == ScriptsCheck(p.scripts, r2)
                     r4 == ReferencesCheck(p.refs, r3)
                 IN IF p.skill_md = "unreadable"
                    THEN [results |-> r4, content |-> NoContent, raised |-> TRUE]
                    ELSE [results |-> r4, content |-> Content(SkillText(p.doc)),
                          raised |-> FALSE]

----------------------------------------------------------------------------
(* Bounds of the inputs *)

MaxListing == 2         \* top-level entries besides the well-known ones
MaxScripts == 2         \* *.py files under scripts/
MaxRefLevels == 5       \* deepest path depth under references/
NameSlack == 1          \* name lengths up to MAX_NAME_LEN + NameSlack
DescSlack == 1          \* description lengths up to MAX_DESC_LEN + DescSlack
BodySlack == 1          \* body line counts up to MAX_BODY_LINES + BodySlack
NumRuns == 2            \* runs of the validator on the same directory
MaxWords == 3           \* words of a command the hook is given

----------------------------------------------------------------------------
(* Input values *)

N_ok == <<"m", "y", "-", "s", "k", "i", "l", "l">>
N_one == <<"a">>
N_shape == <<"M", "y", " ", "S", "k", "i", "l", "l", "!">>
N_both == <<"c", "l", "a", "u", "d", "e", "-", "a", "n", "t", "h", "r", "o", "p", "i", "c">>
N_word == <<"C", "l", "a", "u", "d", "e", "-", "x">>
N_xml == <<"a", "<", "b">>
N_dash == <<"-", "a">>
N_hyphens == <<"m", "y", "-", "-", "-", "s", "k", "i", "l", "l">>

NameCores == {N_ok, N_one, N_shape, N_both, N_word, N_xml, N_dash, N_hyphens}
NameLengths == (MAX_NAME_LEN - 1)..(MAX_NAME_LEN + NameSlack)
NameFills == {"a", "Z", "-"}
NameValues ==
    NameCores \cup
    {PadTo(core, len, fill) :
        core \in {N_ok, N_shape, N_both}, len \in NameLengths, fill \in NameFills}

D_use == <<"U", "s", "e", " ", "w", "h", "e", "n", " ">>
D_this == <<"U", "s", "e", " ", "t", "h", "i", "s", " ", "t", "o", " ">>
D_plain == <<"V", "a", "l", "i", "d", "a", "t", "e", "s", " ", "p", "a", "c", "k", "a", "g", "e", "s", " ">>
D_ican == <<"U", "s", "e", " ", "w", "h", "e", "n", " ", "I", " ", "c", "a", "n", " ", "h", "e", "l", "p", " ">>
D_i == <<"I", " ", "u", "s", "e", " ", "w", "h", "e", "n", " ">>
D_you == <<"U", "s", "e", " ", "w", "h", "e", "n", " ", "y", "o", "u", " ", "s", "h", "o", "u", "l", "d", " ">>
D_xml == <<"U", "s", "e", " ", "w", "h", "e", "n", " ", "<", "b", ">", "b", "o", "l", "d", "<", "/", "b", ">", " ">>
D_fold == <<">", "-", " ", "U", "s", "e", " ", "w", "h", "e", "n", " ">>
D_pipe == <<"|", " ", "U", "s", "e", " ", "w", "h", "e", "n", " ">>
D_hyphens == <<"U", "s", "e", " ", "w", "h", "e", "n", " ", "a", " ", "-", "-", "-", " ", "b", " ", "i", "s", " ">>
D_colon == <<"U", "s", "e", " ", "w", "h", "e", "n", ":", " ">>

DescCores == {D_use, D_this, D_plain, D_ican, D_i, D_you, D_xml, D_fold,
              D_pipe, D_hyphens, D_colon}
DescLengths ==
    ((MIN_DESC_LEN - 1)..(MIN_DESC_LEN + 1)) \cup
    (MAX_DESC_LEN..(MAX_DESC_LEN + DescSlack))
DescGood == PadTo(D_use, MIN_DESC_LEN + 10, "x")
DescValues ==
    {PadTo(core, MIN_DESC_LEN + 10, "x") : core \in DescCores} \cup
    {PadTo(core, len, fill) :
        core \in {D_use, D_plain}, len \in DescLengths, fill \in {"x", "."}}

Quoted(q, v) == <<q>> \o v \o <<q>>
\* a value as written after "key: "
RawValues(values) ==
    values \cup {Quoted("\"", v) : v \in values} \cup {Quoted("'", v) : v \in values}

K_author == <<"a", "u", "t", "h", "o", "r">>
K_version == <<"v", "e", "r", "s", "i", "o", "n">>
V_any == <<"1", ".", "0">>
ExtraFields ==
    {<<>>, <<<<K_license, V_any>>>>, <<<<K_author, V_any>>>>,
     <<<<K_author, V_any>>, <<K_version, V_any>>>>,
     <<<<K_version, V_any>>, <<K_author, V_any>>, <<K_license, V_any>>>>,
     <<<<K_author, V_any>>, <<K_author, V_any>>>>}

NameField(raw) == <<<<K_name, raw>>>>
DescField(raw) == <<<<K_description, raw>>>>

BodyLineCounts ==
    {1, 50} \cup
    ((SHORT_BODY_LINES - 1)..SHORT_BODY_LINES) \cup
    ((MAX_BODY_LINES * 8) \div 10)..((MAX_BODY_LINES * 8) \div 10 + 1) \cup
    (MAX_BODY_LINES..(MAX_BODY_LINES + BodySlack))

GoodFields == NameField(N_ok) \o DescField(DescGood)
BadFields == NameField(Quoted("\"", N_both)) \o DescField(D_you) \o
             <<<<K_author, V_any>>>>

GoodDoc == Doc("closed", GoodFields, 50, TRUE, TRUE)
BadDoc == Doc("closed", BadFields, MAX_BODY_LINES + 1, FALSE, TRUE)
BareDoc == Doc("none", <<>>, 1, FALSE, FALSE)
FewDocs == {GoodDoc, BadDoc, BareDoc}

NameDocs ==
    {Doc("closed", NameField(raw) \o DescField(DescGood), 50, TRUE, TRUE) :
        raw \in RawValues(NameValues) \cup {<<>>}} \cup
    {Doc("closed", DescField(DescGood), 50, TRUE, TRUE)}
DescDocs ==
    {Doc("closed", NameField(N_ok) \o DescField(raw), 50, TRUE, TRUE) :
        raw \in RawValues(DescValues) \cup {<<>>}} \cup
    {Doc("closed", NameField(N_ok), 50, TRUE, TRUE)}
ExtraDocs ==
    {Doc("closed", fields \o extra, 50, TRUE, TRUE) :
        fields \in {GoodFields, BadFields, <<>>}, extra \in ExtraFields}
BodyDocs ==
    {Doc(hdr, GoodFields, n, h1, trail) :
        hdr \in {"none", "open", "closed"}, n \in BodyLineCounts,
        h1 \in BOOLEAN, trail \in BOOLEAN}
\* headers that are unterminated ("open"), well-formed ("closed"), opened by
\* a line of four hyphens ("four"), by three hyphens followed by other
\* characters ("junk") or not at offset zero ("late"); around values with
\* and without three hyphens in them
HeaderKinds == {"open", "closed", "four", "junk", "late"}
HeaderDocs ==
    {Doc(hdr, fields, n, TRUE, TRUE) :
        hdr \in HeaderKinds,
        fields \in {GoodFields,
                    NameField(N_hyphens) \o DescField(DescGood),
                    NameField(N_ok) \o DescField(PadTo(D_hyphens, MIN_DESC_LEN + 10, "x"))},
        n \in {SHORT_BODY_LINES, 50}}
\* header lines as they may be written: a comment, blank lines, words
\* without colon, white space around key and value, more colons, an empty
\* key, values in two layers of quotes, in unbalanced quotes, and with
\* white space inside the quotes
L_comment == <<"#", " ", "n", "o", "t", "e", ":", " ", "x">>
L_blank == <<>>
L_spaces == <<" ", " ", " ">>
L_words == <<"p", "l", "a", "i", "n", " ", "w", "o", "r", "d", "s">>
L_padded == <<" ", " ", "a", "u", "t", "h", "o", "r", " ", " ", ":", " ", " ", " ", "'", "x", " ", "y", "'", " ", " ">>
L_colons == <<"a", "u", "t", "h", "o", "r", ":", " ", "a", ":", " ", "b">>
L_nokey == <<":", " ", "1", ".", "0">>
L_layers == <<"n", "a", "m", "e", ":", " ", "\"", "'", "m", "y", "-", "s", "k", "i", "l", "l", "'", "\"">>
L_mixed == <<"n", "a", "m", "e", ":", " ", "'", "\"", "m", "y", "-", "s", "k", "i", "l", "l", "'">>
L_open == <<"n", "a", "m", "e", ":", " ", "'", "m", "y", "-", "s", "k", "i", "l", "l">>
L_inner == <<"a", "u", "t", "h", "o", "r", ":", " ", "\"", " ", "x", " ", "\"">>
L_late == <<"l", "i", "c", "e", "n", "s", "e", ":", " ", "M", "I", "T">>
RawLines ==
    {L_comment, L_blank, L_spaces, L_words, L_padded, L_colons, L_nokey,
     L_layers, L_mixed, L_open, L_inner, L_late}
LineDocs ==
    {Doc("closed", <<<<l1>>>> \o DescField(DescGood) \o <<<<l2>>>>, 50, TRUE, TRUE) :
        l1 \in RawLines, l2 \in {L_words, L_late, L_layers}}

\* name and description written with an empty value: nothing, white space,
\* or a pair of quotes; next to a good or bad other field
EmptyRaws == {<<>>, <<" ", " ">>, <<"'", "'">>, <<"\"", "\"">>}
EmptyValueDocs ==
    {Doc("closed", NameField(raw) \o DescField(desc), 50, TRUE, TRUE) :
        raw \in EmptyRaws, desc \in {D_you, Quoted("'", D_fold)} \cup EmptyRaws} \cup
    {Doc("closed", DescField(raw) \o NameField(name), 50, TRUE, TRUE) :
        raw \in EmptyRaws, name \in {N_ok, N_both, N_xml}}

\* an empty file, and a header with nothing after it
EmptyDocs ==
    {Doc(hdr, GoodFields, 0, FALSE, trail) :
        hdr \in {"none", "closed"}, trail \in BOOLEAN}

AllDocs ==
    FewDocs \cup NameDocs \cup DescDocs \cup ExtraDocs \cup BodyDocs \cup HeaderDocs
    \cup LineDocs \cup EmptyDocs \cup EmptyValueDocs

Seqs(S, n) == UNION {[1..k -> S] : k \in 0..n}
Injective(f) == \A i, j \in DOMAIN f : f[i] = f[j] => i = j

\* iterdir(): the top-level entries other than SKILL.md, .gitignore,
\* scripts and references, in the order the file system lists them
Listings ==
    {l \in Seqs({"README.md", "CHANGELOG.md", "notes.txt"}, MaxListing) : Injective(l)}

G_both == <<".", "v", "e", "n", "v", "/", "\n", "_", "_", "p", "y", "c", "a", "c", "h", "e", "_", "_", "/", "\n">>
G_venv == <<".", "v", "e", "n", "v", "/", "\n">>
G_pycache == <<"d", "a", "t", "a", "/", "\n", "_", "_", "p", "y", "c", "a", "c", "h", "e", "_", "_", "/", "\n">>
G_near == <<"v", "e", "n", "v", "/", "\n", "_", "p", "y", "c", "a", "c", "h", "e", "_", "/", "\n">>
Gitignores ==
    {AbsentFile, UnreadableFile} \cup
    {File("text", t) : t \in {<<>>, G_both, G_venv, G_pycache, G_near}}
GoodGitignore == File("text", G_both)

ScriptNames == <<"a.py", "b.py", "c.py", "d.py">>
ScriptDirs ==
    {[exists |-> FALSE, files |-> <<>>]} \cup
    {[exists |-> TRUE, files |-> [i \in DOMAIN kinds |-> Script(ScriptNames[i], kinds[i])]] :
        kinds \in Seqs({"ok", "syntax", "undecodable"}, MaxScripts)}
NoScripts == [exists |-> FALSE, files |-> <<>>]

RefDirs ==
    {[exists |-> FALSE, entries |-> <<>>]} \cup
    {[exists |-> TRUE, entries |-> RefWalk(depths, MaxRefLevels, 2)] :
        depths \in SUBSET ((MAX_REF_DEPTH - 1)..MaxRefLevels)}
NoRefs == [exists |-> FALSE, entries |-> <<>>]

BadScripts == [exists |-> TRUE, files |-> <<Script("a.py", "syntax")>>]
DeepRefs ==
    [exists |-> TRUE, entries |-> RefWalk({MAX_REF_DEPTH + 1}, MaxRefLevels, 2)]

CleanPackage(doc) ==
    Package("dir", "text", doc, <<>>, GoodGitignore, NoScripts, NoRefs)

\* SKILL.md: absent, present but not readable as UTF-8 text, or a document
SkillFiles ==
    {<<"absent", GoodDoc>>, <<"unreadable", GoodDoc>>} \cup
    {<<"text", doc>> : doc \in FewDocs}

Packages ==
    {Package(path, "absent", GoodDoc, <<>>, AbsentFile, NoScripts, NoRefs) :
        path \in {"missing", "file"}} \cup
    {CleanPackage(doc) : doc \in AllDocs} \cup
    {Package("dir", sk[1], sk[2], listing, gitignore, NoScripts, NoRefs) :
        sk \in SkillFiles, listing \in Listings, gitignore \in Gitignores} \cup
    {Package("dir", sk[1], sk[2], listing, GoodGitignore, scripts, refs) :
        sk \in SkillFiles, listing \in {<<>>, <<"README.md">>},
        scripts \in ScriptDirs, refs \in {NoRefs, DeepRefs}} \cup
    {Package("dir", sk[1], sk[2], listing, GoodGitignore, scripts, refs) :
        sk \in SkillFiles, listing \in {<<>>, <<"README.md">>},
        scripts \in {NoScripts, BadScripts}, refs \in RefDirs}

----------------------------------------------------------------------------
(* The run of validate_skill *)

----------------------------------------------------------------------------
(* hooks/cost_guard.py: the regular expressions of check_command *)

\* re.search of a literal
SearchLit(command, lit) == Contains(command, lit)

\* re.search(r'opus', command, re.IGNORECASE), for ASCII commands
SearchOpus(command) == Contains(Lower(command), <<"o", "p", "u", "s">>)

\* the start positions of the matches of claude\s+-p
ClaudePMatches(command) ==
    {i \in 1..(Len(command) - 8) :
        /\ SubSeq(command, i, i + 5) = <<"c", "l", "a", "u", "d", "e">>
        /\ \E j \in (i + 7)..(Len(command) - 1) :
              /\ \A k \in (i + 6)..(j - 1) : command[k] \in WHITESPACE
              /\ SubSeq(command, j, j + 1) = <<"-", "p">>}

\* \w
WordChars == LowerSet \cup {UPPER[k] : k \in 1..26} \cup DIGITS \cup {"_"}

\* re.search of \bword\b
SearchWord(command, word) ==
    \E i \in 1..(Len(command) - Len(word) + 1) :
        /\ SubSeq(command, i, i + Len(word) - 1) = word
        /\ i = 1 \/ command[i - 1] \notin WordChars
        /\ i + Len(word) > Len(command) \/ command[i + Len(word)] \notin WordChars

\* re.search of &\s*$
SearchTrailingAmp(command) ==
    \E i \in 1..Len(command) :
        /\ command[i] = "&"
        /\ \A k \in (i + 1)..Len(command) : command[k] \in WHITESPACE

R_run_loop == <<"r", "u", "n", "_", "l", "o", "o", "p">>
R_run_eval == <<"r", "u", "n", "_", "e", "v", "a", "l">>
R_run_in_background == <<"r", "u", "n", "_", "i", "n", "_", "b", "a", "c", "k", "g", "r", "o", "u", "n", "d">>
R_for == <<"f", "o", "r">>
R_while == <<"w", "h", "i", "l", "e">>
R_xargs == <<"x", "a", "r", "g", "s">>
R_parallel == <<"p", "a", "r", "a", "l", "l", "e", "l">>
R_api == <<"a", "n", "t", "h", "r", "o", "p", "i", "c", ".", "A", "n", "t", "h", "r", "o", "p", "i", "c">>
R_create == <<"c", "l", "i", "e", "n", "t", ".", "m", "e", "s", "s", "a", "g", "e", "s", ".", "c", "r", "e", "a", "t", "e">>

\* run_in_background|&\s*$|\bfor\b|\bwhile\b|\bxargs\b|\bparallel\b
SearchBatch(command) ==
    \/ SearchLit(command, R_run_in_background)
    \/ SearchTrailingAmp(command)
    \/ SearchWord(command, R_for)
    \/ SearchWord(command, R_while)
    \/ SearchWord(command, R_xargs)
    \/ SearchWord(command, R_parallel)

Issue(level, message, n) == [level |-> level, message |-> message, n |-> n]

\* any(i["level"] == "block" for i in issues), taken for all issues
has_block_All(is) == is # <<>> /\ \A k \in 1..Len(is) : is[k].level = "block"

\* any(i["level"] == "block" for i in issues)
has_block(is) == \E k \in 1..Len(is) : is[k].level = "block"

check_command(command) ==
    LET i1 == AppendIf((SearchLit(command, R_run_loop) \/ SearchLit(command, R_run_eval))
                          /\ SearchOpus(command),
                       <<>>,
                       Issue("block", "BLOCKED: run_loop/run_eval with Opus model detected", 0))
        i2 == AppendIf(ClaudePMatches(command) # {} /\ SearchOpus(command)
                          /\ SearchBatch(command),
                       i1,
                       Issue("block", "BLOCKED: Batch/background claude -p with Opus detected", 0))
        i3 == AppendIf(SearchLit(command, R_run_loop) /\ ~has_block(i2),
                       i2,
                       Issue("warn", "WARNING: run_loop.py detected", 0))
        claude_p_count == Cardinality(ClaudePMatches(command))
        i4 == AppendIf(claude_p_count > 1,
                       i3,
                       Issue("warn", "WARNING: claude -p calls in one command", claude_p_count))
    IN AppendIf(SearchLit(command, R_api) \/ SearchLit(command, R_create),
                i4,
                Issue("warn", "WARNING: Direct Anthropic API call detected in command", 0))

----------------------------------------------------------------------------
(* hooks/cost_guard.py: what the hook reads on stdin *)

\* a JSON value as far as main looks at it
JAbsent == [type |-> "absent", num |-> 0, text |-> <<>>]
JNull == [type |-> "null", num |-> 0, text |-> <<>>]
JNum(n) == [type |-> "number", num |-> n, text |-> <<>>]
JStr(text) == [type |-> "string", num |-> 0, text |-> text]

\* bool(v) of the Python value of v; an absent command is the default ""
Truthy(v) ==
    \/ v.type = "number" /\ v.num # 0
    \/ v.type = "string" /\ v.text # <<>>

\* stdin: text that is not JSON ("invalid"), a JSON value that is not an
\* object ("value"), or an object; tool_name is "" when the key is absent;
\* tool_input is absent, an object, or a value that is not an object
Input(kind, tool_name, tool_input, command) ==
    [kind |-> kind, tool_name |-> tool_name, tool_input |-> tool_input,
     command |-> command]
NoInput == Input("object", "", "absent", JAbsent)

\* the words of the commands
Words ==
    {<<"r", "u", "n", "_", "l", "o", "o", "p", ".", "p", "y">>, <<"r", "u", "n", "_", "e", "v", "a", "l", ".", "p", "y">>, <<"O", "p", "u", "s">>, <<"c", "l", "a", "u", "d", "e">>, <<"-", "p">>, <<"&">>,
     <<"f", "o", "r">>, <<"f", "o", "r", "m", "a", "t">>, <<"c", "l", "i", "e", "n", "t", ".", "m", "e", "s", "s", "a", "g", "e", "s", ".", "c", "r", "e", "a", "t", "e">>, <<"h", "a", "i", "k", "u">>}

\* " ".join(words)
RECURSIVE Join(_)
Join(ws) ==
    IF Len(ws) = 0 THEN <<>>
    ELSE IF Len(ws) = 1 THEN ws[1]
    ELSE ws[1] \o <<" ">> \o Join(Tail(ws))

\* commands with other white space than one blank between the words
C_tabs ==
    <<"c", "l", "a", "u", "d", "e", "\t", "\n", "-", "p", " ", "O", "p", "u", "s", " ", "|", " ", "x", "a", "r", "g", "s", " ", "e", "c", "h", "o">>
C_nospace ==
    <<"c", "l", "a", "u", "d", "e", "-", "p", " ", "o", "p", "u", "s", " ", "&">>
C_trailing ==
    <<"c", "l", "a", "u", "d", "e", " ", " ", "-", "p", " ", "O", "P", "U", "S", " ", "&", " ", "\n">>
C_several ==
    <<"c", "l", "a", "u", "d", "e", " ", "-", "p", " ", "x", ";", " ", "a", "n", "t", "h", "r", "o", "p", "i", "c", ".", "A", "n", "t", "h", "r", "o", "p", "i", "c", "(", ")", " ", ";", " ",
      "c", "l", "a", "u", "d", "e", " ", "-", "p", " ", "y", " ", ";", " ", "c", "l", "a", "u", "d", "e", " ", "-", "p", " ", "w", "h", "i", "l", "e">>

Commands ==
    {Join(ws) : ws \in Seqs(Words, MaxWords)} \cup
    {C_tabs, C_nospace, C_trailing, C_several}

CommandValues == {JAbsent, JNull, JNum(0), JNum(5), JStr(<<>>)}

Inputs ==
    {Input("invalid", "", "absent", JAbsent), Input("value", "", "absent", JAbsent)} \cup
    {Input("object", t, "object", JStr(c)) : t \in {"", "Write"}, c \in {<<>>, C_several}} \cup
    {Input("object", t, i, JAbsent) : t \in {"Bash", "Write"}, i \in {"absent", "value"}} \cup
    {Input("object", "Bash", "object", v) : v \in CommandValues} \cup
    {Input("object", "Bash", "object", JStr(c)) : c \in Commands}

----------------------------------------------------------------------------
(* validate_skill and main of validate_skill.py *)

NoExit == 0 - 1         \* no exit code was returned

\* the orders in which a process may iterate over a set of str: the order
\* follows the str hashes, which are salted anew in every process
IterationOrders(S) ==
    {order \in [1..Cardinality(S) -> S] : Injective(order)}

Init ==
    /\ pkg \in Packages
    /\ pc = "start"
    /\ results = <<>>
    /\ content = NoContent
    /\ meta = NoMeta
    /\ body = <<>>
    /\ report = <<>>
    /\ exitCode = NoExit
    /\ run = 1
    /\ prevReport = <<>>
    /\ prevExit = NoExit
    /\ stdin = NoInput
    /\ hookPc = "off"
    /\ issues = <<>>
    /\ stderr = <<>>
    /\ hookExit = NoExit

\* validate_skill, up to the call of validate_structure
CheckPath ==
    /\ pc = "start"
    /\ IF pkg.path = "missing"
       THEN /\ report' = <<Line("ERROR: Path not found", "", NoMsg, 0, 0)>>
            /\ exitCode' = 1
            /\ pc' = "done"
       ELSE IF pkg.path # "dir"
       THEN /\ report' = <<Line("ERROR: Not a directory", "", NoMsg, 0, 0)>>
            /\ exitCode' = 1
            /\ pc' = "done"
       ELSE /\ pc' = "structure"
            /\ UNCHANGED <<report, exitCode>>
    /\ results' = <<>>
    /\ UNCHANGED <<pkg, content, meta, body, run, prevReport, prevExit>>
    /\ UNCHANGED hookVars

\* a validator that repairs what it finds: a missing .gitignore is written
ValidateStructure_AutoFix ==
    /\ pc = "structure"
    /\ LET r == validate_structure(pkg, results)
       IN /\ results' = r.results
          /\ content' = r.content
          /\ pc' = IF r.raised THEN "raised"
                   ELSE IF r.content.isNone THEN "print" ELSE "parse"
    /\ pkg' = IF pkg.gitignore.kind = "absent"
              THEN [pkg EXCEPT !.gitignore = GoodGitignore]
              ELSE pkg
    /\ UNCHANGED <<meta, body, report, exitCode, run, prevReport, prevExit>>
    /\ UNCHANGED hookVars

ValidateStructure ==
    /\ pc = "structure"
    /\ LET r == validate_structure(pkg, results)
       IN /\ results' = r.results
          /\ content' = r.content
          /\ pc' = IF r.raised THEN "raised"
                   ELSE IF r.content.isNone THEN "print" ELSE "parse"
    /\ UNCHANGED <<pkg, meta, body, report, exitCode, run, prevReport, prevExit>>
    /\ UNCHANGED hookVars

ParseFrontmatter ==
    /\ pc = "parse"
    /\ LET r == parse_frontmatter(content.text)
       IN /\ meta' = r.meta
          /\ body' = r.body
    /\ pc' = "frontmatter"
    /\ UNCHANGED <<pkg, results, content, report, exitCode, run, prevReport, prevExit>>
    /\ UNCHANGED hookVars

ValidateFrontmatter ==
    /\ pc = "frontmatter"
    /\ \E order \in IterationOrders(FORBIDDEN_NAME_WORDS) :
          results' = validate_frontmatter(meta, results, order)
    /\ pc' = "body"
    /\ UNCHANGED <<pkg, content, meta, body, report, exitCode, run, prevReport, prevExit>>
    /\ UNCHANGED hookVars

ValidateBody ==
    /\ pc = "body"
    /\ results' = validate_body(body, results)
    /\ pc' = "print"
    /\ UNCHANGED <<pkg, content, meta, body, report, exitCode, run, prevReport, prevExit>>
    /\ UNCHANGED hookVars

\* print_results and the return of validate_skill
PrintResults ==
    /\ pc = "print"
    /\ LET r == print_results(DIR_NAME, results)
       IN /\ report' = r.out
          /\ exitCode' = IF content.isNone THEN 1 ELSE r.code
    /\ pc' = "done"
    /\ UNCHANGED <<pkg, results, content, meta, body, run, prevReport, prevExit>>
    /\ UNCHANGED hookVars

\* the validator is started again on the unchanged directory
Rerun ==
    /\ pc \in {"done", "raised"}
    /\ run < NumRuns
    /\ run' = run + 1
    /\ prevReport' = report
    /\ prevExit' = exitCode
    /\ pc' = "start"
    /\ results' = <<>>
    /\ content' = NoContent
    /\ meta' = NoMeta
    /\ body' = <<>>
    /\ report' = <<>>
    /\ exitCode' = NoExit
    /\ UNCHANGED pkg
    /\ UNCHANGED hookVars

Next ==
    \/ CheckPath
    \/ ValidateStructure
    \/ ParseFrontmatter
    \/ ValidateFrontmatter
    \/ ValidateBody
    \/ PrintResults
    \/ Rerun

Spec == Init /\ [][Next]_vars

----------------------------------------------------------------------------
(* hooks/cost_guard.py: main *)

InitHook ==
    /\ pkg = CleanPackage(GoodDoc)
    /\ pc = "off"
    /\ results = <<>>
    /\ content = NoContent
    /\ meta = NoMeta
    /\ body = <<>>
    /\ report = <<>>
    /\ exitCode = NoExit
    /\ run = 1
    /\ prevReport = <<>>
    /\ prevExit = NoExit
    /\ stdin \in Inputs
    /\ hookPc = "load"
    /\ issues = <<>>
    /\ stderr = <<>>
    /\ hookExit = NoExit

\* the process ends with this exit status
Exit(status) ==
    /\ hookExit' = status
    /\ hookPc' = "exited"

\* an exception nothing catches: the interpreter prints the traceback and
\* ends with exit status 1
Raise ==
    /\ stderr' = <<"Traceback">>
    /\ Exit(1)

\* json.load(sys.stdin) and its except clause
Load ==
    /\ hookPc = "load"
    /\ IF stdin.kind = "invalid"
       THEN /\ stderr' = <<"Error: Invalid JSON input">>
            /\ Exit(1)
       ELSE /\ hookPc' = "tool_name"
            /\ UNCHANGED <<stderr, hookExit>>
    /\ UNCHANGED <<stdin, issues>>
    /\ UNCHANGED validatorVars

\* input_data.get("tool_name", "") and the test against "Bash"
ToolName ==
    /\ hookPc = "tool_name"
    /\ IF stdin.kind # "object"
       THEN Raise
       ELSE IF stdin.tool_name # "Bash"
       THEN /\ Exit(0)
            /\ UNCHANGED stderr
       ELSE /\ hookPc' = "command"
            /\ UNCHANGED <<stderr, hookExit>>
    /\ UNCHANGED <<stdin, issues>>
    /\ UNCHANGED validatorVars

\* tool_input.get("command", "") and the test of the command
Command ==
    /\ hookPc = "command"
    /\ IF stdin.tool_input = "value"
       THEN Raise
       ELSE IF stdin.tool_input = "absent" \/ ~Truthy(stdin.command)
       THEN /\ Exit(0)
            /\ UNCHANGED stderr
       ELSE /\ hookPc' = "check"
            /\ UNCHANGED <<stderr, hookExit>>
    /\ UNCHANGED <<stdin, issues>>
    /\ UNCHANGED validatorVars

\* issues = check_command(command); re.search raises for a command that is
\* not a str
CheckCommand ==
    /\ hookPc = "check"
    /\ IF stdin.command.type # "string"
       THEN /\ Raise
            /\ UNCHANGED issues
       ELSE /\ issues' = check_command(stdin.command.text)
            /\ hookPc' = "report"
            /\ UNCHANGED <<stderr, hookExit>>
    /\ UNCHANGED stdin
    /\ UNCHANGED validatorVars

\* the rest of main: the messages go to stderr, a block issue blocks
Report ==
    /\ hookPc = "report"
    /\ stderr' = [k \in 1..Len(issues) |-> <<issues[k].message, issues[k].n>>]
    /\ IF issues = <<>> THEN Exit(0)
       ELSE IF has_block(issues) THEN Exit(2)
       ELSE Exit(0)
    /\ UNCHANGED <<stdin, issues>>
    /\ UNCHANGED validatorVars

NextHook ==
    \/ Load
    \/ ToolName
    \/ Command
    \/ CheckCommand
    \/ Report

SpecHook == InitHook /\ [][NextHook]_vars


----------------------------------------------------------------------------
(* Vocabulary of the properties *)

Returned == pc = "done"
Ended == pc \in {"done", "raised"}
StructureRan == pkg.path = "dir" /\ pc \notin {"start", "structure"}
FrontmatterRan == ~content.isNone /\ pc \in {"body", "print", "done"}
BodyRan == ~content.isNone /\ pc \in {"print", "done"}

Fired(check, kind) ==
    \E i \in 1..Len(results) :
        results[i].check = check /\ results[i].message.kind = kind
Count(check, kind) ==
    Cardinality({i \in 1..Len(results) :
        results[i].check = check /\ results[i].message.kind = kind})
HasError == \E i \in 1..Len(results) : results[i].level = "ERROR"

HeaderChecks == {"frontmatter", "name", "description"}
OfChecks(rs, checks) == SelectSeq(rs, LAMBDA r : r.check \in checks)

\* group of a diagnostic in the evaluation order structure, frontmatter, body
GroupOf(r) ==
    IF r.check \in {"structure", "scripts"} THEN 1
    ELSE IF r.check \in HeaderChecks THEN 2
    ELSE 3

\* the diagnostics a section of the report lists, as <<check, message>>
Listed(out, tag) ==
    LET ls == SelectSeq(out, LAMBDA l : l.tag = tag)
    IN [i \in 1..Len(ls) |-> <<ls[i].check, ls[i].message>>]
OfLevel(rs, level) ==
    LET sel == SelectSeq(rs, LAMBDA r : r.level = level)
    IN [i \in 1..Len(sel) |-> <<sel[i].check, sel[i].message>>]

\* number of lines of a text, and whether one of them starts with "# "
LineCount(text) == Cardinality({i \in 1..Len(text) : text[i] = "\n"}) + 1
HasHeading(text) ==
    StartsWith(text, <<"#", " ">>) \/ Contains(text, <<"\n", "#", " ">>)

NameOf(m) == DictGet(m.items, K_name, <<>>)
DescOf(m) == DictGet(m.items, K_description, <<>>)

----------------------------------------------------------------------------
(* C1: every invocation of validate_skill returns an exit code, which is 1
   exactly when the path does not exist, the path is not a directory,
   SKILL.md is missing, or the diagnostics contain at least one ERROR, and
   is 0 in every other case, whatever the number of WARN diagnostics. *)
C1_ExitCode ==
    Ended =>
        /\ exitCode \in {0, 1}
        /\ exitCode = 1 <=>
              \/ pkg.path = "missing"
              \/ pkg.path = "file"
              \/ pkg.skill_md = "absent"
              \/ HasError

(* C2: when parse_frontmatter returns no header, validate_frontmatter adds
   exactly one diagnostic, ERROR "frontmatter" (no frontmatter found), and
   no name, description or unknown-field diagnostic. *)
C2_NoHeaderOneError ==
    (FrontmatterRan /\ meta.isNone) =>
        OfChecks(results, HeaderChecks) = <<NoFrontmatter>>

\* an unterminated header with fields in it went through validate_frontmatter
C2_Witness ==
    /\ FrontmatterRan /\ meta.isNone
    /\ pkg.doc.hdr = "open" /\ pkg.doc.fields # <<>>
    /\ Fired("frontmatter", "No YAML frontmatter found (must start with ---)")

(* C3: a package directory without SKILL.md is a hard stop: exit code 1 and
   exactly one diagnostic, ERROR "structure" (SKILL.md not found); no other
   structural, frontmatter or body diagnostic, whatever the directory holds. *)
C3_HardStop ==
    (pkg.path = "dir" /\ pkg.skill_md = "absent") =>
        /\ pc \in {"start", "structure", "print", "done"}
        /\ StructureRan =>
              results = <<Result("ERROR", "structure", Msg("SKILL.md not found", 0, <<>>))>>
        /\ Returned => exitCode = 1

\* the run ended for a directory without SKILL.md that holds a forbidden
\* file, a script with a syntax error and a deeply nested reference
C3_Witness ==
    /\ Returned /\ pkg.path = "dir" /\ pkg.skill_md = "absent"
    /\ \E i \in 1..Len(pkg.listing) : pkg.listing[i] \in FORBIDDEN_FILES
    /\ \E i \in 1..Len(pkg.scripts.files) : pkg.scripts.files[i].kind = "syntax"
    /\ \E i \in 1..Len(pkg.refs.entries) :
          pkg.refs.entries[i].is_file /\ Len(pkg.refs.entries[i].rel) > MAX_REF_DEPTH
    /\ Len(results) = 1

(* C4: idempotence: a second run of the validator on the unchanged
   directory yields the same report and the same exit code as the first. *)
C4_Idempotent ==
    (run > 1 /\ Ended) => (report = prevReport /\ exitCode = prevExit)

(* C5: the diagnostic sequence is ordered by rule group, structure/scripts
   before frontmatter/name/description before body, and the ERROR section
   and the WARN section of the report list their diagnostics in the same
   relative order as that sequence. *)
C5_GroupOrder ==
    /\ \A i, j \in 1..Len(results) :
          i < j => GroupOf(results[i]) <= GroupOf(results[j])
    /\ (Returned /\ pkg.path = "dir") =>
          /\ Listed(report, "[x]") = OfLevel(results, "ERROR")
          /\ Listed(report, "[!]") = OfLevel(results, "WARN")

\* a report with diagnostics of all three groups, two or more per section
C5_Witness ==
    /\ Returned /\ pkg.path = "dir"
    /\ {GroupOf(results[i]) : i \in 1..Len(results)} = {1, 2, 3}
    /\ Len(Listed(report, "[x]")) >= 2
    /\ Len(Listed(report, "[!]")) >= 2
    /\ \E i, j \in 1..Len(results) :
          i < j /\ results[i].level = "WARN" /\ results[j].level = "ERROR"

(* C6: for a present name, ERROR "name" (too long) is produced if and only
   if the length of the name exceeds 64, whatever its characters: it fires
   at length 65 and not at length 64. *)
C6_NameTooLong ==
    (FrontmatterRan /\ ~meta.isNone /\ NameOf(meta) # <<>>) =>
        (Fired("name", "Name too long") <=> Len(NameOf(meta)) > MAX_NAME_LEN)

\* a name of 65 characters that is not of the identifier shape got the ERROR
C6_Witness ==
    /\ FrontmatterRan /\ ~meta.isNone
    /\ Len(NameOf(meta)) = MAX_NAME_LEN + 1
    /\ ~NAME_PATTERN(NameOf(meta))
    /\ Fired("name", "Name too long")

(* C7: for a present description, WARN "description" (very short) is
   produced if and only if its length is below 30: it fires at length 29
   and not at length 30. *)
C7_DescTooShort ==
    (FrontmatterRan /\ ~meta.isNone /\ DescOf(meta) # <<>>) =>
        (Fired("description", "Description very short") <=>
            Len(DescOf(meta)) < MIN_DESC_LEN)

\* a description of exactly 30 characters passed without the WARN
C7_Witness ==
    /\ FrontmatterRan /\ ~meta.isNone
    /\ Len(DescOf(meta)) = MIN_DESC_LEN
    /\ ~Fired("description", "Description very short")

BodyKinds == {results[i].message.kind : i \in {k \in 1..Len(results) : results[k].check = "body"}}
LengthKinds == {"Body too long", "Body approaching limit", "Body is very short"}

(* C8, as stated: the four body checks may all fire simultaneously, there
   is a body for which validate_body emits all four diagnostics. *)
C8_AllFourFire ==
    \E n \in BodyLineCounts, h1 \in BOOLEAN :
        LET rs == validate_body(BodyText(n, h1), results)
        IN LengthKinds \cup {"No H1 heading found"} \subseteq
              {rs[i].message.kind : i \in 1..Len(rs)}

(* C8, amended: at most one of the three length diagnostics (too long,
   approaching limit, very short) is produced for a body, so never all four;
   the heading check alone is independent: WARN "body" (no H1 heading) is
   produced if and only if no line starts with "# ", whatever the length. *)
C8_AtMostOneLength ==
    BodyRan =>
        /\ Cardinality(BodyKinds \cap LengthKinds) <= 1
        /\ Count("body", "No H1 heading found") = (IF HasHeading(body) THEN 0 ELSE 1)

\* a body of more than 400 lines without heading: two body diagnostics
C8_Witness ==
    /\ BodyRan
    /\ BodyKinds = {"Body approaching limit", "No H1 heading found"}

(* C9: for a body of exactly 501 lines none of which starts with "# ",
   validate_body produces both ERROR "body" (too long) and WARN "body"
   (no H1 heading). *)
C9_LongAndNoHeading ==
    (BodyRan /\ LineCount(body) = MAX_BODY_LINES + 1 /\ ~HasHeading(body)) =>
        /\ Count("body", "Body too long") = 1
        /\ Count("body", "No H1 heading found") = 1

\* validate_body ran on a body of 501 lines without heading
C9_Witness ==
    /\ BodyRan /\ LineCount(body) = MAX_BODY_LINES + 1 /\ ~HasHeading(body)
    /\ BodyKinds = {"Body too long", "No H1 heading found"}


\* the value a header line "key: raw" stands for: raw without its quotes
FieldValue(raw) ==
    IF Len(raw) >= 2 /\ raw[1] \in QUOTES /\ raw[Len(raw)] = raw[1]
    THEN SubSeq(raw, 2, Len(raw) - 1)
    ELSE raw

ValidName(v) ==
    /\ Len(v) <= MAX_NAME_LEN
    /\ NAME_PATTERN(v)
    /\ \A word \in FORBIDDEN_NAME_WORDS : ~Contains(Lower(v), word)

ValidDesc(v) ==
    /\ Len(v) >= MIN_DESC_LEN /\ Len(v) <= MAX_DESC_LEN
    /\ ~Contains(v, <<"<">>) /\ ~Contains(v, <<">">>)
    /\ ~StartsWith(v, <<"|">>)
    /\ Contains(Lower(v), S_use_when)
    /\ ~StartsWith(Lower(v), S_i_sp)
    /\ \A p \in {S_i_can, S_i_will, S_you_can, S_you_should} : ~Contains(Lower(v), p)

\* a package that meets every rule of the packaging contract
Compliant(p) ==
    /\ p.path = "dir" /\ p.skill_md = "text"
    /\ p.doc.hdr = "closed"
    /\ \A i \in 1..Len(p.doc.fields) : p.doc.fields[i][1] \in allowed_fields
    /\ \E i \in 1..Len(p.doc.fields) :
          p.doc.fields[i][1] = K_name /\ ValidName(FieldValue(p.doc.fields[i][2]))
    /\ \E i \in 1..Len(p.doc.fields) :
          p.doc.fields[i][1] = K_description /\ ValidDesc(FieldValue(p.doc.fields[i][2]))
    /\ p.doc.lines = 50 /\ p.doc.h1
    /\ p.gitignore.kind = "text"
    /\ Contains(p.gitignore.text, P_venv) /\ Contains(p.gitignore.text, P_pycache)
    /\ \A i \in 1..Len(p.listing) : p.listing[i] \notin FORBIDDEN_FILES
    /\ \A i \in 1..Len(p.scripts.files) : p.scripts.files[i].kind # "syntax"
    /\ \A i \in 1..Len(p.refs.entries) :
          p.refs.entries[i].is_file => Len(p.refs.entries[i].rel) <= MAX_REF_DEPTH

(* C10: for every fully compliant package (valid name, description with
   "use when", body of 50 lines with a heading, .gitignore with both
   patterns, no forbidden file) the run returns exit code 0 with zero
   diagnostics and the report states ALL CHECKS PASSED. *)
C10_CompliantPasses ==
    (Returned /\ Compliant(pkg)) =>
        /\ exitCode = 0
        /\ results = <<>>
        /\ \E i \in 1..Len(report) : report[i].tag = "ALL CHECKS PASSED"


\* validate_structure went through all its checks
ScanRan ==
    /\ pkg.path = "dir" /\ pkg.skill_md # "absent"
    /\ pkg.gitignore.kind # "unreadable"
    /\ pc \notin {"start", "structure"}

\* number of deep-nesting WARNs that name the relative path rel
DeepWarns(rel) ==
    Cardinality({i \in 1..Len(results) :
        /\ results[i] = Result("WARN", "structure", Msg("Deep nesting", 0, rel))})

(* C11: once the references rule was evaluated, every entry under
   references/ has a WARN "structure" (deep nesting) naming its path
   relative to the package root, exactly one, if and only if it is a file
   and that path has more than 3 components; a directory never has one. *)
C11_DeepNesting ==
    ScanRan =>
        /\ \A i \in 1..Len(pkg.refs.entries) :
              DeepWarns(pkg.refs.entries[i].rel) =
                 (IF pkg.refs.entries[i].is_file /\ Len(pkg.refs.entries[i].rel) > 3
                  THEN 1 ELSE 0)
        /\ Count("structure", "Deep nesting") =
              Cardinality({i \in 1..Len(pkg.refs.entries) :
                  pkg.refs.entries[i].is_file /\ Len(pkg.refs.entries[i].rel) > 3})

\* a file 4 levels deep got its WARN, next to a file 3 levels deep and a
\* directory 4 levels deep that got none
C11_Witness ==
    /\ ScanRan
    /\ \E i, j, k \in 1..Len(pkg.refs.entries) :
          /\ pkg.refs.entries[i].is_file /\ Len(pkg.refs.entries[i].rel) = 4
          /\ DeepWarns(pkg.refs.entries[i].rel) = 1
          /\ pkg.refs.entries[j].is_file /\ Len(pkg.refs.entries[j].rel) = 3
          /\ ~pkg.refs.entries[k].is_file /\ Len(pkg.refs.entries[k].rel) = 4
    /\ Count("structure", "Deep nesting") = 1


\* the identifier shape: one character of [a-z0-9], or [a-z0-9], then any
\* number of [a-z0-9-], then [a-z0-9]
IdentifierShape(v) ==
    LET alnum == {LOWER[k] : k \in 1..26} \cup DIGITS
    IN \/ Len(v) = 1 /\ v[1] \in alnum
       \/ /\ Len(v) >= 2
          /\ v[1] \in alnum /\ v[Len(v)] \in alnum
          /\ \A i \in 2..(Len(v) - 1) : v[i] \in alnum \cup {"-"}

(* C12: for a present name, ERROR "name" (invalid shape) is produced, once,
   if and only if the name does not fully match the identifier shape; it
   comes in addition to the other name diagnostics, not instead of them. *)
C12_NameShape ==
    (FrontmatterRan /\ ~meta.isNone /\ NameOf(meta) # <<>>) =>
        /\ Count("name", "Name must be lowercase letters, numbers, hyphens only") =
              (IF IdentifierShape(NameOf(meta)) THEN 0 ELSE 1)
        /\ Fired("name", "Name too long") <=> Len(NameOf(meta)) > MAX_NAME_LEN
        /\ Fired("name", "Name must not contain") <=>
              \E word \in FORBIDDEN_NAME_WORDS : Contains(Lower(NameOf(meta)), word)

\* a name with upper case, space and punctuation, too long as well, got the
\* shape ERROR next to the too-long ERROR
C12_Witness ==
    /\ FrontmatterRan /\ ~meta.isNone
    /\ StartsWith(NameOf(meta), N_shape)
    /\ Fired("name", "Name must be lowercase letters, numbers, hyphens only")
    /\ Fired("name", "Name too long")


HasLine(tag) == \E i \in 1..Len(report) : report[i].tag = tag
NumWarns == Cardinality({i \in 1..Len(results) : results[i].level = "WARN"})

(* C13: the report of print_results has the line ALL CHECKS PASSED if and
   only if the run produced zero diagnostics; with zero ERROR and at least
   one WARN it says RESULT: PASS with the number of warnings and does not
   say ALL CHECKS PASSED. *)
C13_AllPassed ==
    (Returned /\ pkg.path = "dir") =>
        /\ HasLine("ALL CHECKS PASSED") <=> results = <<>>
        /\ (~HasError /\ NumWarns >= 1) =>
              /\ \E i \in 1..Len(report) :
                    report[i].tag = "RESULT: PASS" /\ report[i].n = NumWarns
              /\ ~HasLine("ALL CHECKS PASSED")
              /\ ~HasLine("RESULT: FAIL")

\* a run with warnings only has been reported as PASS with its count
C13_Witness ==
    /\ Returned /\ pkg.path = "dir"
    /\ ~HasError /\ NumWarns >= 2
    /\ HasLine("RESULT: PASS") /\ ~HasLine("ALL CHECKS PASSED")


ParseRan == ~content.isNone /\ pc \in {"frontmatter", "body", "print", "done"}

\* a delimiter line: a line that consists of exactly three hyphens; i is
\* the position of its first character
DelimLineAt(text, i) ==
    /\ i = 1 \/ text[i - 1] = "\n"
    /\ i + 2 <= Len(text) /\ SubSeq(text, i, i + 2) = DELIM
    /\ i + 3 > Len(text) \/ text[i + 3] = "\n"
BeginsWithDelimLine(text) == DelimLineAt(text, 1)
\* the delimiter lines after the first line
ClosingLines(text) == {i \in 5..Len(text) : DelimLineAt(text, i)}

(* C14: parse_frontmatter returns a result for every text, and the result
   is (no header, the full unmodified text) both when the text does not
   begin with the header delimiter line and when the opening delimiter has
   no closing delimiter line after it. *)
C14_Tolerant ==
    /\ pc = "parse" => parse_frontmatter(content.text).meta.isNone \in BOOLEAN
    /\ (ParseRan /\ (~BeginsWithDelimLine(content.text) \/ ClosingLines(content.text) = {})) =>
          (meta.isNone /\ body = content.text)


(* C15: no exception escapes a validation run: for every existing package
   directory validate_skill ends by returning exit code 0 or 1, whatever
   file of the package cannot be read. *)
C15_NoException ==
    pkg.path = "dir" =>
        /\ pc # "raised"
        /\ Returned => exitCode \in {0, 1}

(* C19: parse_frontmatter recognises a header only when the text begins,
   at offset zero, with a line of exactly three hyphens; a first line of
   four hyphens, or of three hyphens followed by other characters, makes a
   document without header. *)
C19_HeaderOnlyAfterDelimLine ==
    (ParseRan /\ ~meta.isNone) => BeginsWithDelimLine(content.text)

(* C20: with the opening delimiter present, the header ends at the next
   delimiter line: three hyphens inside a header line do not end it, every
   header line before that delimiter line is parsed, and the body is the
   text after the closing delimiter line, stripped. *)
C20_HeaderEndsAtDelimLine ==
    (ParseRan /\ BeginsWithDelimLine(content.text) /\ ClosingLines(content.text) # {}) =>
        LET close == Min(ClosingLines(content.text))
        IN /\ ~meta.isNone
           /\ body = Strip(SubSeq(content.text, close + 3, Len(content.text)))
           /\ pkg.doc.hdr = "closed" =>
                 \A i \in 1..Len(pkg.doc.fields) :
                     Len(pkg.doc.fields[i]) = 2 =>
                         DictHas(meta.items, pkg.doc.fields[i][1])


(* C16: the validator never mutates the package under validation: in every
   step of every run (early exit, hard stop, full evaluation, a second run)
   the files of the package directory and their contents stay as they
   were; only the diagnostics, the report and the exit code change. *)
C16_ReadOnly == [][pkg' = pkg]_vars

\* a full evaluation that found no .gitignore has returned, and the
\* directory still has none
C16_Witness ==
    /\ Returned /\ BodyRan
    /\ pkg.gitignore.kind = "absent"
    /\ Fired("structure", "No .gitignore found")

\* rs is the beginning of rs2
IsPrefix(rs, rs2) ==
    Len(rs) <= Len(rs2) /\ SubSeq(rs2, 1, Len(rs)) = rs

(* C17: the diagnostic sequence is append-only: every step of a run leaves
   the diagnostics it already holds in place, unmodified and in order, and
   adds new ones at the end only; the report lists each diagnostic under
   the severity it was created with, ERROR under errors and WARN under
   warnings. *)
C17_AppendOnly ==
    [][run' = run =>
          /\ IsPrefix(results, results')
          /\ (pc' = "done" /\ pkg.path = "dir") =>
                /\ Listed(report', "[x]") = OfLevel(results', "ERROR")
                /\ Listed(report', "[!]") = OfLevel(results', "WARN")
                /\ Len(Listed(report', "[x]")) + Len(Listed(report', "[!]"))
                      = Len(results')]_vars

\* a report of four or more diagnostics in which an ERROR was created
\* before a WARN
C17_Witness ==
    /\ Returned /\ pkg.path = "dir"
    /\ Len(results) >= 4
    /\ \E i, j \in 1..Len(results) :
          i < j /\ results[i].level = "ERROR" /\ results[j].level = "WARN"


----------------------------------------------------------------------------
(* Vocabulary of the hook's properties *)

Exited == hookPc = "exited"
BashCall == stdin.kind = "object" /\ stdin.tool_name = "Bash"
OtherCall == stdin.kind = "object" /\ stdin.tool_name # "Bash"
\* a Bash call with a tool_input object whose command is a str
StrCommand ==
    /\ BashCall /\ stdin.tool_input = "object"
    /\ stdin.command.type = "string"
NonEmptyCommand == StrCommand /\ stdin.command.text # <<>>
\* a Bash call without command, or with the command ""
EmptyCommand ==
    /\ BashCall
    /\ \/ stdin.tool_input = "absent"
       \/ stdin.tool_input = "object" /\ stdin.command.type = "absent"
       \/ StrCommand /\ stdin.command.text = <<>>
\* a Bash call whose command is absent or falsy (null, 0, "")
NoCommand ==
    /\ BashCall
    /\ \/ stdin.tool_input = "absent"
       \/ stdin.tool_input = "object" /\ ~Truthy(stdin.command)
\* stdin is not the JSON of a tool call: not JSON, not an object, or a
\* Bash call whose tool_input is not an object or whose command is truthy
\* and not a str
Malformed ==
    \/ stdin.kind # "object"
    \/ BashCall /\ stdin.tool_input = "value"
    \/ BashCall /\ stdin.tool_input = "object"
          /\ stdin.command.type # "string" /\ Truthy(stdin.command)
Levels(is) == {is[k].level : k \in 1..Len(is)}

(* C18, as stated: the hook exits with 0 or 2; for a Bash call with a
   non-empty command it exits 2 exactly when check_command reports a
   block-level issue, and 0 otherwise; a non-Bash call or an empty command
   exits 0. *)
C18_AllowOrBlock ==
    Exited =>
        /\ hookExit \in {0, 2}
        /\ NonEmptyCommand =>
              (hookExit = 2 <=> "block" \in Levels(check_command(stdin.command.text)))
        /\ (OtherCall \/ EmptyCommand) => hookExit = 0

(* C18, amended: the hook exits with 0, 2 or 1, and with 1 exactly when
   stdin is not the JSON of a tool call (not JSON, not an object, or a Bash
   call with a tool_input that is not an object or a command that is truthy
   and not a string); for a Bash call with a non-empty command string it
   exits 2 exactly when check_command reports a block-level issue, warn
   issues or not, and 0 otherwise; a non-Bash call, or a Bash call with an
   absent, empty or falsy command, exits 0. *)
C18_ExitStatus ==
    Exited =>
        /\ hookExit \in {0, 1, 2}
        /\ hookExit = 1 <=> Malformed
        /\ NonEmptyCommand =>
              /\ issues = check_command(stdin.command.text)
              /\ hookExit = 2 <=> "block" \in Levels(issues)
        /\ (OtherCall \/ NoCommand) => hookExit = 0

\* a command with a block issue and a warn issue was blocked
C18_Witness ==
    /\ Exited /\ NonEmptyCommand
    /\ Levels(issues) = {"block", "warn"}
    /\ hookExit = 2


----------------------------------------------------------------------------
(* The header lines of the document, read as the contract reads them *)

HeaderLines(doc) == [k \in 1..Len(doc.fields) |-> HeaderLine(doc.fields[k])]

\* no header line holds three hyphens in a row
CleanHeader(doc) ==
    \A k \in 1..Len(doc.fields) : ~Contains(HeaderLine(doc.fields[k]), DELIM)

\* the line is not blank, is no comment and contains a colon
HasKey(line) ==
    /\ Strip(line) # <<>>
    /\ ~StartsWith(Strip(line), <<"#">>)
    /\ \E j \in 1..Len(line) : line[j] = ":"

FirstColon(line) == Min({j \in 1..Len(line) : line[j] = ":"})
\* the trimmed key, and the trimmed value less one layer of quotes
KeyOf(line) == Strip(SubSeq(line, 1, FirstColon(line) - 1))
ValueOf(line) == FieldValue(Strip(SubSeq(line, FirstColon(line) + 1, Len(line))))

(* C21: every header line with a colon is split on its first colon into a
   trimmed key and a trimmed value less exactly one layer of surrounding
   quotes (a value in two layers of quotes keeps the inner layer, a quote
   on one side only stays); blank lines, comment lines and lines without a
   colon contribute no key. *)
C21_OneLayer ==
    (ParseRan /\ pkg.doc.hdr = "closed" /\ CleanHeader(pkg.doc)) =>
        LET lines == HeaderLines(pkg.doc)
        IN /\ {meta.items[i][1] : i \in 1..Len(meta.items)} =
                 {KeyOf(lines[k]) : k \in {j \in 1..Len(lines) : HasKey(lines[j])}}
           /\ \A k \in 1..Len(lines) :
                 (/\ HasKey(lines[k])
                  /\ \A j \in (k + 1)..Len(lines) :
                        HasKey(lines[j]) => KeyOf(lines[j]) # KeyOf(lines[k]))
                 => DictGet(meta.items, KeyOf(lines[k]), <<>>) = ValueOf(lines[k])


\* the value of the key as written in the header, trimmed and with its
\* quotes; <<>> when no header line has the key
RawValueOf(doc, key) ==
    LET lines == HeaderLines(doc)
        hits == {k \in 1..Len(lines) : HasKey(lines[k]) /\ KeyOf(lines[k]) = key}
    IN IF hits = {} THEN <<>>
       ELSE LET line == lines[CHOOSE k \in hits : \A j \in hits : j <= k]
            IN Strip(SubSeq(line, FirstColon(line) + 1, Len(line)))

BlockScalar(raw) == StartsWith(raw, <<">", "-">>) \/ StartsWith(raw, <<"|">>)

(* C22: the block-scalar check looks at the description as written in the
   header, before its quotes are stripped: ERROR "description" (block-scalar
   indicator) fires exactly when the raw value starts with ">-" or "|", so
   a quoted description that begins with ">-" or "|" inside its quotes does
   not fire it. *)
C22_RawBlockScalar ==
    (FrontmatterRan /\ pkg.doc.hdr = "closed" /\ CleanHeader(pkg.doc)) =>
        (Fired("description", "YAML multiline indicators break the skill indexer")
            <=> BlockScalar(RawValueOf(pkg.doc, K_description)))


\* the keys the unknown-field WARNs name, in the order of the diagnostics
UnknownWarned ==
    LET sel == SelectSeq(results,
                   LAMBDA r : r.message.kind = "Unknown frontmatter field")
    IN [i \in 1..Len(sel) |-> sel[i].message.s]
MetaKeys == [i \in 1..Len(meta.items) |-> meta.items[i][1]]

(* C23: whenever a header is present, validate_frontmatter emits exactly
   one WARN "frontmatter" (unknown field) for each distinct header key
   outside the allow-list and none for an allowed key, whether or not name
   and description are present or valid. *)
C23_UnknownFields ==
    (FrontmatterRan /\ ~meta.isNone) =>
        /\ UnknownWarned = SelectSeq(MetaKeys, LAMBDA key : key \notin allowed_fields)
        /\ \A i \in 1..Len(results) :
              results[i].message.kind = "Unknown frontmatter field" =>
                  results[i].level = "WARN" /\ results[i].check = "frontmatter"
        /\ (pkg.doc.hdr = "closed" /\ CleanHeader(pkg.doc)) =>
              LET lines == HeaderLines(pkg.doc)
                  keys == {KeyOf(lines[k]) : k \in {j \in 1..Len(lines) : HasKey(lines[j])}}
              IN /\ {UnknownWarned[i] : i \in 1..Len(UnknownWarned)} = keys \ allowed_fields
                 /\ Len(UnknownWarned) = Cardinality(keys \ allowed_fields)

\* a header without name and description that holds the same unknown key
\* twice got one WARN for it
C23_Witness ==
    /\ FrontmatterRan /\ ~meta.isNone
    /\ Fired("frontmatter", "Missing 'name' field")
    /\ Fired("frontmatter", "Missing 'description' field")
    /\ Len(pkg.doc.fields) = 2 /\ pkg.doc.fields[1] = pkg.doc.fields[2]
    /\ UnknownWarned = <<K_author>>


----------------------------------------------------------------------------
\* number of diagnostics equal to r
Times(r) == Cardinality({i \in 1..Len(results) : results[i] = r})
GitignoreKinds == {"No .gitignore found", ".gitignore missing exclusion"}
GitignoreResults == SelectSeq(results, LAMBDA r : r.message.kind \in GitignoreKinds)

(* C24: once the .gitignore rule was evaluated: for an absent .gitignore
   exactly one WARN "structure" (no .gitignore) and no per-pattern WARN; for
   a present one exactly one WARN "structure" for each of the patterns
   ".venv" and "__pycache__" that its text lacks, so 0 to 2 WARNs; and the
   rule never produces an ERROR. *)
C24_Gitignore ==
    /\ \A i \in 1..Len(GitignoreResults) :
          GitignoreResults[i].level = "WARN" /\ GitignoreResults[i].check = "structure"
    /\ ScanRan =>
          IF pkg.gitignore.kind = "absent"
          THEN GitignoreResults =
                  <<Result("WARN", "structure", Msg("No .gitignore found", 0, <<>>))>>
          ELSE /\ Count("structure", "No .gitignore found") = 0
               /\ \A pattern \in {P_venv, P_pycache} :
                     Times(Result("WARN", "structure",
                                  Msg(".gitignore missing exclusion", 0, pattern)))
                        = (IF Contains(pkg.gitignore.text, pattern) THEN 0 ELSE 1)
               /\ Len(GitignoreResults) =
                     Cardinality({pattern \in {P_venv, P_pycache} :
                                     ~Contains(pkg.gitignore.text, pattern)})
               /\ Len(GitignoreResults) \in 0..2

\* a .gitignore that names venv/ and _pycache_/, not the required
\* patterns, got both WARNs
C24_Witness ==
    /\ ScanRan /\ Returned
    /\ pkg.gitignore.kind = "text" /\ pkg.gitignore.text # <<>>
    /\ Len(GitignoreResults) = 2

SyntaxError(py_file) ==
    Result("ERROR", "scripts", Msg("Syntax error in", 0, <<py_file.name>>))

(* C25: once the scripts were scanned, every script with a syntax error has
   exactly one ERROR "scripts" (syntax error in <file>), a script that fails
   otherwise (not decodable) has none, the scan went on to the remaining
   scripts, the references check ran, and with a readable SKILL.md the
   frontmatter and body checks ran too. *)
C25_ScriptScan ==
    ScanRan =>
        /\ \A i \in 1..Len(pkg.scripts.files) :
              Times(SyntaxError(pkg.scripts.files[i])) =
                 (IF pkg.scripts.files[i].kind = "syntax" THEN 1 ELSE 0)
        /\ Len(OfChecks(results, {"scripts"})) =
              Cardinality({i \in 1..Len(pkg.scripts.files) :
                              pkg.scripts.files[i].kind = "syntax"})
        /\ Count("structure", "Deep nesting") =
              Cardinality({i \in 1..Len(pkg.refs.entries) :
                  pkg.refs.entries[i].is_file /\ Len(pkg.refs.entries[i].rel) > MAX_REF_DEPTH})
        /\ pkg.skill_md = "text" => pc # "raised"
        /\ (pkg.skill_md = "text" /\ Returned) => (FrontmatterRan /\ BodyRan)

\* a script that cannot be decoded came before one with a syntax error: the
\* second was reported, and the later checks added their diagnostics
C25_Witness ==
    /\ ScanRan /\ Returned
    /\ Len(pkg.scripts.files) = 2
    /\ pkg.scripts.files[1].kind = "undecodable"
    /\ pkg.scripts.files[2].kind = "syntax"
    /\ OfChecks(results, {"scripts"}) = <<SyntaxError(pkg.scripts.files[2])>>
    /\ Fired("structure", "Deep nesting")
    /\ Fired("name", "Name must not contain")
    /\ Fired("body", "Body too long")


(* C26: for every body, with n its number of lines: ERROR "body" (too long)
   iff n > 500; WARN "body" (approaching limit) iff 400 < n <= 500; never
   both; WARN "body" (very short) iff n < 5; an empty body counts as one
   line. *)
C26_LineCounts ==
    BodyRan =>
        LET n == LineCount(body)
        IN /\ Count("body", "Body too long") = (IF n > 500 THEN 1 ELSE 0)
           /\ Count("body", "Body approaching limit") =
                 (IF 400 < n /\ n <= 500 THEN 1 ELSE 0)
           /\ ~(Fired("body", "Body too long") /\ Fired("body", "Body approaching limit"))
           /\ Count("body", "Body is very short") = (IF n < 5 THEN 1 ELSE 0)
           /\ \A i \in 1..Len(results) :
                 results[i].message.kind \in {"Body too long", "Body approaching limit"} =>
                     results[i].message.n = n
           /\ body = <<>> => n = 1

\* a body of exactly 400 lines got neither length diagnostic
C26_Witness ==
    /\ BodyRan /\ LineCount(body) = 400
    /\ BodyKinds \cap LengthKinds = {}

\* an empty body was counted as one line and found very short
C26_WitnessEmpty ==
    /\ BodyRan /\ body = <<>>
    /\ Fired("body", "Body is very short")


\* the text has no header, or one that is not terminated
NoHeader(text) == ~BeginsWithDelimLine(text) \/ ClosingLines(text) = {}

\* the body diagnostics that the text, taken as it is, calls for
RawBodyKinds(text) ==
    LET n == LineCount(text)
    IN (IF n > MAX_BODY_LINES THEN {"Body too long"} ELSE {}) \cup
       (IF n <= MAX_BODY_LINES /\ n * 10 > MAX_BODY_LINES * 8
        THEN {"Body approaching limit"} ELSE {}) \cup
       (IF n < SHORT_BODY_LINES THEN {"Body is very short"} ELSE {}) \cup
       (IF ~HasHeading(text) THEN {"No H1 heading found"} ELSE {})

(* C27: when SKILL.md exists and has no header, or an unterminated one, the
   run goes on after the frontmatter ERROR: the body rules are evaluated on
   the full raw text of the file, untrimmed and with the header lines in
   it, and their diagnostics follow the single frontmatter ERROR. *)
C27_BodyOnRawText ==
    (BodyRan /\ NoHeader(content.text)) =>
        /\ body = content.text
        /\ OfChecks(results, HeaderChecks) = <<NoFrontmatter>>
        /\ BodyKinds = RawBodyKinds(content.text)
        /\ \A i, j \in 1..Len(results) :
              (results[i] = NoFrontmatter /\ results[j].check = "body") => i < j


\* del meta[k]
DictRemove(items, k) == SelectSeq(items, LAMBDA kv : kv[1] # k)
\* the key is in the header and its value is empty
EmptyField(k) == DictHas(meta.items, k) /\ DictGet(meta.items, k, <<>>) = <<>>
\* the diagnostics of validate_frontmatter for the header without key k
WithoutField(k) ==
    {validate_frontmatter([meta EXCEPT !.items = DictRemove(@, k)], <<>>, order) :
        order \in IterationOrders(FORBIDDEN_NAME_WORDS)}

(* C28: a name (respectively description) key present in the header with an
   empty value is treated exactly like an absent key: the only diagnostic
   for the field is ERROR "frontmatter" (missing field), no other rule of
   the field fires, and the rules of the other field are evaluated as they
   are without it. *)
C28_EmptyIsMissing ==
    (FrontmatterRan /\ ~meta.isNone) =>
        /\ EmptyField(K_name) =>
              /\ Count("frontmatter", "Missing 'name' field") = 1
              /\ OfChecks(results, {"name"}) = <<>>
              /\ OfChecks(results, HeaderChecks) \in WithoutField(K_name)
              /\ DescOf(meta) # <<>> =>
                    (Fired("description", "Description should be third person (not 'you can/should')")
                        <=> (\/ Contains(Lower(DescOf(meta)), S_you_can)
                             \/ Contains(Lower(DescOf(meta)), S_you_should)))
        /\ EmptyField(K_description) =>
              /\ Count("frontmatter", "Missing 'description' field") = 1
              /\ OfChecks(results, {"description"}) = <<>>
              /\ OfChecks(results, HeaderChecks) \in WithoutField(K_description)
              /\ NameOf(meta) # <<>> =>
                    (Fired("name", "Name must not contain XML tags")
                        <=> (Contains(NameOf(meta), <<"<">>) \/ Contains(NameOf(meta), <<">">>)))

\* name: '' next to a description in the second person: the name is
\* reported missing and the description's rule has fired
C28_Witness ==
    /\ FrontmatterRan /\ ~meta.isNone
    /\ RawValueOf(pkg.doc, K_name) = <<"'", "'">>
    /\ EmptyField(K_name)
    /\ Fired("frontmatter", "Missing 'name' field")
    /\ Fired("description", "Description should be third person (not 'you can/should')")

====
